---- MODULE Spec2Model ----
(***************************************************************************)
(* Kudu scan planning: ColumnPredicate, the primary-key codec and          *)
(* ScanSpec::OptimizeScan (lift / push / prune), driven by the fixtures    *)
(* and the test cases of src/kudu/common/scan_spec-test.cc.                *)
(*                                                                         *)
(* An optional value (a nullptr-able pointer, a boost::optional) is a      *)
(* sequence of length 0 or 1.  An INT8 cell is an integer, a STRING cell a *)
(* sequence of bytes.  Key columns are numbered 1..n in key order          *)
(* (a = 1, b = 2, c = 3).                                                  *)
(***************************************************************************)
EXTENDS Integers, Sequences, FiniteSets, TLC

INT8_MIN == -128
INT8_MAX == 127

Absent == <<>>

Some(v) == <<v>>

IsSet(o) == Len(o) = 1

Get(o) == o[1]

(***************************************************************************)
(* Schemas of the three fixtures.                                          *)
(***************************************************************************)
CompositeIntKeys == <<"INT8", "INT8", "INT8">>

CompositeIntStringKeys == <<"INT8", "STRING", "STRING">>

SingleIntKey == <<"INT8">>

num_key_columns(schema) == Len(schema)

(***************************************************************************)
(* Per-type primitives: comparison, minimum, consecutive values, increment *)
(***************************************************************************)
Sign(n) == IF n < 0 THEN -1 ELSE IF n > 0 THEN 1 ELSE 0

RECURSIVE SliceCompare(_, _)
\* memcmp over the common prefix, then the shorter slice is the smaller
SliceCompare(x, y) ==
  IF Len(x) = 0 \/ Len(y) = 0 THEN Sign(Len(x) - Len(y))
  ELSE IF Head(x) # Head(y) THEN Sign(Head(x) - Head(y))
  ELSE SliceCompare(Tail(x), Tail(y))

Compare(type, x, y) ==
  IF type = "INT8" THEN Sign(x - y) ELSE SliceCompare(x, y)

MinValue(type) == IF type = "INT8" THEN INT8_MIN ELSE <<>>

AreConsecutive(type, x, y) ==
  IF type = "INT8"
  THEN x < INT8_MAX /\ x + 1 = y
  ELSE /\ Len(x) + 1 = Len(y)
       /\ y[Len(y)] = 0
       /\ SubSeq(y, 1, Len(x)) = x

\* the incremented cell and whether the increment succeeded; an INT8 cell at
\* the maximum wraps to the minimum and reports failure
IncrementCell(type, v) ==
  IF type = "INT8"
  THEN IF v = INT8_MAX THEN [ok |-> FALSE, cell |-> INT8_MIN]
                       ELSE [ok |-> TRUE, cell |-> v + 1]
  ELSE [ok |-> TRUE, cell |-> Append(v, 0)]

(***************************************************************************)
(* ColumnPredicate: Equality(v), Range(lower?, upper?) with an exclusive   *)
(* upper bound, or None (no value can satisfy it).                         *)
(***************************************************************************)
ColumnPredicate(ptype, lower, upper) ==
  [predicate_type |-> ptype, lower |-> lower, upper |-> upper]

SetToNone == ColumnPredicate("None", Absent, Absent)

Simplify(type, p) ==
  IF p.predicate_type = "Range" /\ IsSet(p.lower) /\ IsSet(p.upper)
  THEN IF Compare(type, Get(p.lower), Get(p.upper)) >= 0
       THEN SetToNone
       ELSE IF AreConsecutive(type, Get(p.lower), Get(p.upper))
            THEN ColumnPredicate("Equality", p.lower, Absent)
            ELSE p
  ELSE p

Equality(v) == ColumnPredicate("Equality", Some(v), Absent)

Range(type, lower, upper) ==
  Simplify(type, ColumnPredicate("Range", lower, upper))

\* the predicate for lower <= col <= upper, or nothing when the constraint
\* is vacuous (no lower bound and an upper bound that cannot be incremented)
InclusiveRange(type, lower, upper) ==
  IF IsSet(upper)
  THEN LET inc == IncrementCell(type, Get(upper))
       IN IF ~inc.ok
          THEN IF ~IsSet(lower) THEN Absent
               ELSE Some(Range(type, lower, Absent))
          ELSE Some(Range(type, lower, Some(inc.cell)))
  ELSE Some(Range(type, lower, upper))

CheckValueInRange(type, p, v) ==
  /\ (~IsSet(p.lower) \/ Compare(type, v, Get(p.lower)) >= 0)
  /\ (~IsSet(p.upper) \/ Compare(type, v, Get(p.upper)) < 0)

MergeIntoRange(type, self, other) ==
  CASE other.predicate_type = "None" -> SetToNone
    [] other.predicate_type = "Range" ->
         LET lo == IF IsSet(other.lower) /\
                      (~IsSet(self.lower) \/
                       Compare(type, Get(self.lower), Get(other.lower)) < 0)
                   THEN other.lower ELSE self.lower
             hi == IF IsSet(other.upper) /\
                      (~IsSet(self.upper) \/
                       Compare(type, Get(self.upper), Get(other.upper)) > 0)
                   THEN other.upper ELSE self.upper
         IN Simplify(type, ColumnPredicate("Range", lo, hi))
    [] other.predicate_type = "Equality" ->
         IF \/ (IsSet(self.lower) /\
                Compare(type, Get(self.lower), Get(other.lower)) > 0)
            \/ (IsSet(self.upper) /\
                Compare(type, Get(self.upper), Get(other.lower)) <= 0)
         THEN SetToNone
         ELSE ColumnPredicate("Equality", other.lower, Absent)

MergeIntoEquality(type, self, other) ==
  CASE other.predicate_type = "None" -> SetToNone
    [] other.predicate_type = "Range" ->
         IF CheckValueInRange(type, other, Get(self.lower))
         THEN self ELSE SetToNone
    [] other.predicate_type = "Equality" ->
         IF Compare(type, Get(self.lower), Get(other.lower)) # 0
         THEN SetToNone ELSE self

Merge(type, self, other) ==
  CASE self.predicate_type = "None" -> self
    [] self.predicate_type = "Range" -> MergeIntoRange(type, self, other)
    [] self.predicate_type = "Equality" -> MergeIntoEquality(type, self, other)

\* does a cell value satisfy the predicate (row-level evaluation)
EvaluateCell(type, p, v) ==
  CASE p.predicate_type = "None" -> FALSE
    [] p.predicate_type = "Equality" -> Compare(type, v, Get(p.lower)) = 0
    [] p.predicate_type = "Range" -> CheckValueInRange(type, p, v)

(***************************************************************************)
(* Key codec: the order-preserving byte form of a row of key cells.        *)
(* INT8: one byte with the sign bit flipped.  STRING: the raw bytes in the *)
(* last key column; elsewhere a zero byte is escaped as 00 01 and the cell *)
(* is terminated by 00 00.                                                 *)
(***************************************************************************)
RECURSIVE EscapeZeros(_)
EscapeZeros(v) ==
  IF Len(v) = 0 THEN <<>>
  ELSE (IF Head(v) = 0 THEN <<0, 1>> ELSE <<Head(v)>>) \o EscapeZeros(Tail(v))

EncodeCell(type, v, is_last) ==
  IF type = "INT8" THEN <<v + 128>>
  ELSE IF is_last THEN v
  ELSE EscapeZeros(v) \o <<0, 0>>

RECURSIVE EncodeKeyFrom(_, _, _)
EncodeKeyFrom(schema, row, i) ==
  IF i > Len(schema) THEN <<>>
  ELSE EncodeCell(schema[i], row[i], i = Len(schema))
         \o EncodeKeyFrom(schema, row, i + 1)

\* EncodedKey::FromContiguousRow: the raw cells and their encoded bytes
EncodedKey(schema, row) ==
  [raw_keys |-> row, encoded_key |-> EncodeKeyFrom(schema, row, 1)]

KeyCompare(k1, k2) == SliceCompare(k1.encoded_key, k2.encoded_key)

(***************************************************************************)
(* key_util: increment of a key prefix with carry, push of the predicates  *)
(* into a lower and an upper bound row.                                    *)
(***************************************************************************)
RECURSIVE IncrementKey(_, _, _)
\* increments cell i; on overflow the wrapped cell stays and the carry moves
\* to cell i-1; past the first cell the increment has failed
IncrementKey(schema, row, i) ==
  IF i = 0 THEN [ok |-> FALSE, row |-> row]
  ELSE LET inc == IncrementCell(schema[i], row[i])
           r == [row EXCEPT ![i] = inc.cell]
       IN IF inc.ok THEN [ok |-> TRUE, row |-> r]
          ELSE IncrementKey(schema, r, i - 1)

MinRow(schema) == [i \in 1..Len(schema) |-> MinValue(schema[i])]

RECURSIVE LowerPushed(_, _, _)
\* number of leading key columns whose predicate has a lower-bound value
LowerPushed(schema, preds, i) ==
  IF i > Len(schema) THEN 0
  ELSE IF ~IsSet(preds[i]) THEN 0
  ELSE IF ~IsSet(Get(preds[i]).lower) THEN 0
  ELSE 1 + LowerPushed(schema, preds, i + 1)

PushLowerBoundKeyPredicates(schema, preds) ==
  LET n == LowerPushed(schema, preds, 1)
  IN [pushed |-> n,
      row |-> [i \in 1..Len(schema) |->
                 IF i <= n THEN Get(Get(preds[i]).lower)
                 ELSE MinValue(schema[i])]]

RECURSIVE EqualityPrefix(_, _, _)
\* length of the leading run of key columns holding an Equality predicate
EqualityPrefix(schema, preds, i) ==
  IF i > Len(schema) THEN 0
  ELSE IF ~IsSet(preds[i]) THEN 0
  ELSE IF Get(preds[i]).predicate_type # "Equality" THEN 0
  ELSE 1 + EqualityPrefix(schema, preds, i + 1)

PushUpperBoundKeyPredicates(schema, preds) ==
  LET k == EqualityPrefix(schema, preds, 1)
      has_range == /\ k < Len(schema)
                   /\ IsSet(preds[k + 1])
                   /\ Get(preds[k + 1]).predicate_type = "Range"
                   /\ IsSet(Get(preds[k + 1]).upper)
      n == IF has_range THEN k + 1 ELSE k
      copied == [i \in 1..Len(schema) |->
                   IF i <= k THEN Get(Get(preds[i]).lower)
                   ELSE IF i = k + 1 /\ has_range
                        THEN Get(Get(preds[i]).upper)
                        ELSE MinValue(schema[i])]
      inc == IncrementKey(schema, copied, n)
  IN IF n = 0 THEN [pushed |-> 0, row |-> copied]
     ELSE IF has_range THEN [pushed |-> n, row |-> copied]
     ELSE IF ~inc.ok THEN [pushed |-> 0, row |-> copied]
     ELSE [pushed |-> n, row |-> inc.row]

(***************************************************************************)
(* ScanSpec: the predicate map (key column -> optional ColumnPredicate)    *)
(* and the optional lower / exclusive upper bound keys.                    *)
(***************************************************************************)
NoPredicates(schema) == [i \in 1..Len(schema) |-> Absent]

\* AddPredicate as a plain emplace: an existing predicate is kept unmerged
AddPredicate_Emplace(schema, preds, col, pred) ==
  IF IsSet(preds[col]) THEN preds ELSE [preds EXCEPT ![col] = Some(pred)]

\* ScanSpec::AddPredicate: merge into the column's predicate, or insert
AddPredicate(schema, preds, col, pred) ==
  IF IsSet(preds[col])
  THEN [preds EXCEPT ![col] = Some(Merge(schema[col], Get(preds[col]), pred))]
  ELSE [preds EXCEPT ![col] = Some(pred)]

RemovePredicate(preds, col) == [preds EXCEPT ![col] = Absent]

\* keeps the larger of the current and the new lower bound key
SetLowerBoundKey(cur, key) ==
  IF ~IsSet(cur) \/ KeyCompare(key, Get(cur)) > 0 THEN Some(key) ELSE cur

\* keeps the smaller of the current and the new exclusive upper bound key
SetExclusiveUpperBoundKey(cur, key) ==
  IF ~IsSet(cur) \/ KeyCompare(key, Get(cur)) < 0 THEN Some(key) ELSE cur

\* a decoded bound cell, dropped when it is the type's minimum
UnlessMin(type, v) == IF Compare(type, v, MinValue(type)) = 0 THEN Absent ELSE Some(v)

RECURSIVE LiftFrom(_, _, _, _, _)
\* Lift, from key column i on: Equality on the shared prefix of the two
\* bound keys, one Range on the first column where they differ
LiftFrom(schema, preds, lo, up, i) ==
  IF i > Len(schema) THEN preds
  ELSE
    LET type == schema[i]
        lower == IF IsSet(lo) THEN Some(Get(lo).raw_keys[i]) ELSE Absent
        upper == IF IsSet(up) THEN Some(Get(up).raw_keys[i]) ELSE Absent
    IN IF IsSet(lower) /\ IsSet(upper) /\ Compare(type, Get(lower), Get(upper)) = 0
       THEN LiftFrom(schema, AddPredicate(schema, preds, i, Equality(Get(lower))),
                     lo, up, i + 1)
       ELSE
         LET is_exclusive ==
               \A j \in (i + 1)..Len(schema) :
                  IsSet(up) => Compare(schema[j], Get(up).raw_keys[j],
                                       MinValue(schema[j])) = 0
             low == IF IsSet(lower) THEN UnlessMin(type, Get(lower)) ELSE Absent
             high == IF IsSet(upper) THEN UnlessMin(type, Get(upper)) ELSE Absent
         IN IF is_exclusive
            THEN IF ~IsSet(low) /\ ~IsSet(high) THEN preds
                 ELSE
                   LET predicate == Range(type, low, high)
                       next == IF i < Len(schema)
                               THEN UnlessMin(schema[i + 1], Get(lo).raw_keys[i + 1])
                               ELSE Absent
                       more == IF predicate.predicate_type = "Equality" /\ IsSet(next)
                               THEN AddPredicate(schema, preds, i + 1,
                                                 Range(schema[i + 1], next, Absent))
                               ELSE preds
                   IN AddPredicate(schema, more, i, predicate)
            ELSE
              LET p == InclusiveRange(type, low, upper)
              IN IF IsSet(p) THEN AddPredicate(schema, preds, i, Get(p)) ELSE preds

LiftPrimaryKeyBounds(schema, spec) ==
  IF ~IsSet(spec.lower_bound_key) /\ ~IsSet(spec.exclusive_upper_bound_key)
  THEN spec.predicates
  ELSE LiftFrom(schema, spec.predicates, spec.lower_bound_key,
                spec.exclusive_upper_bound_key, 1)

Max(a, b) == IF a >= b THEN a ELSE b

\* Prune: the columns erased are the equality prefix and the first Range
\* column, as far as predicates were pushed into either bound
ErasedColumns(schema, preds, pushed) ==
  LET k == EqualityPrefix(schema, preds, 1)
      last == IF /\ k < Len(schema)
                 /\ IsSet(preds[k + 1])
                 /\ Get(preds[k + 1]).predicate_type = "Range"
              THEN k + 1 ELSE k
  IN {i \in 1..Len(schema) : i <= pushed /\ i <= last}

PushPredicatesIntoPrimaryKeyBounds(schema, spec, remove_pushed_predicates) ==
  LET lower == PushLowerBoundKeyPredicates(schema, spec.predicates)
      upper == PushUpperBoundKeyPredicates(schema, spec.predicates)
      erased == IF remove_pushed_predicates
                THEN ErasedColumns(schema, spec.predicates,
                                   Max(lower.pushed, upper.pushed))
                ELSE {}
  IN [predicates |->
        [i \in 1..Len(schema) |->
           IF i \in erased THEN Absent ELSE spec.predicates[i]],
      lower_bound_key |->
        IF lower.pushed > 0
        THEN SetLowerBoundKey(spec.lower_bound_key, EncodedKey(schema, lower.row))
        ELSE spec.lower_bound_key,
      exclusive_upper_bound_key |->
        IF upper.pushed > 0
        THEN SetExclusiveUpperBoundKey(spec.exclusive_upper_bound_key,
                                       EncodedKey(schema, upper.row))
        ELSE spec.exclusive_upper_bound_key]

OptimizeScan(schema, spec, remove_pushed_predicates) ==
  PushPredicatesIntoPrimaryKeyBounds(
    schema,
    [spec EXCEPT !.predicates = LiftPrimaryKeyBounds(schema, spec)],
    remove_pushed_predicates)

\* the scan can return no row: an empty key range, or a None predicate
EmptyKeyRange(spec) ==
  /\ IsSet(spec.lower_bound_key)
  /\ IsSet(spec.exclusive_upper_bound_key)
  /\ KeyCompare(Get(spec.lower_bound_key), Get(spec.exclusive_upper_bound_key)) >= 0

HasNonePredicate(spec) ==
  \E i \in DOMAIN spec.predicates :
     IsSet(spec.predicates[i]) /\ Get(spec.predicates[i]).predicate_type = "None"

CanShortCircuit(spec) == EmptyKeyRange(spec) \/ HasNonePredicate(spec)

(***************************************************************************)
(* The test cases: the calls each one makes on its ScanSpec, and the state *)
(* its assertions expect (the bound keys where the test asserts ToString,  *)
(* the predicate map always).                                              *)
(***************************************************************************)
Add(col, cmp, val) == [call |-> "AddPredicate", col |-> col, cmp |-> cmp, val |-> val]

Lower(row) == [call |-> "SetLowerBound", row |-> row]

Upper(row) == [call |-> "SetExclusiveUpperBound", row |-> row]

Optimize(erase) == [call |-> "OptimizeScan", erase |-> erase]

TestCase(schema, calls, keys, lower, upper, preds) ==
  [schema |-> schema, calls |-> calls, keys |-> keys,
   lower |-> lower, upper |-> upper, predicates |-> preds]

TestSimplify ==
  TestCase(CompositeIntKeys,
           <<Add(1, "EQ", 127),
             Add(2, "GE", 3),
             Add(2, "LE", 127),
             Add(2, "LE", 100),
             Add(3, "LE", 64)>>,
           FALSE, Absent, Absent,
           <<Some(Equality(127)),
             Some(ColumnPredicate("Range", Some(3), Some(101))),
             Some(ColumnPredicate("Range", Absent, Some(65)))>>)

TestPrefixEquality ==
  TestCase(CompositeIntKeys,
           <<Add(1, "EQ", 64),
             Optimize(TRUE)>>,
           TRUE, Some(<<64, INT8_MIN, INT8_MIN>>), Some(<<65, INT8_MIN, INT8_MIN>>),
           <<Absent,
             Absent,
             Absent>>)

TestPrefixUpperBound ==
  TestCase(CompositeIntKeys,
           <<Add(1, "LE", 126),
             Optimize(TRUE)>>,
           TRUE, Absent, Some(<<127, INT8_MIN, INT8_MIN>>),
           <<Absent,
             Absent,
             Absent>>)

TestPrefixLowerBound ==
  TestCase(CompositeIntKeys,
           <<Add(1, "GE", 126),
             Optimize(TRUE)>>,
           TRUE, Some(<<126, INT8_MIN, INT8_MIN>>), Absent,
           <<Absent,
             Absent,
             Absent>>)

TestConsecutiveLowerRangePredicates ==
  TestCase(CompositeIntKeys,
           <<Add(1, "GE", 3),
             Add(2, "GE", 4),
             Add(3, "GE", 5),
             Optimize(TRUE)>>,
           TRUE, Some(<<3, 4, 5>>), Absent,
           <<Absent,
             Some(ColumnPredicate("Range", Some(4), Absent)),
             Some(ColumnPredicate("Range", Some(5), Absent))>>)

TestConsecutiveUpperRangePredicates ==
  TestCase(CompositeIntKeys,
           <<Add(1, "LE", 3),
             Add(2, "LE", 4),
             Add(3, "LE", 5),
             Optimize(TRUE)>>,
           TRUE, Absent, Some(<<4, INT8_MIN, INT8_MIN>>),
           <<Absent,
             Some(ColumnPredicate("Range", Absent, Some(5))),
             Some(ColumnPredicate("Range", Absent, Some(6)))>>)

TestEqualityAndConsecutiveLowerRangePredicates ==
  TestCase(CompositeIntKeys,
           <<Add(1, "EQ", 3),
             Add(2, "GE", 4),
             Add(3, "GE", 5),
             Optimize(TRUE)>>,
           TRUE, Some(<<3, 4, 5>>), Some(<<4, INT8_MIN, INT8_MIN>>),
           <<Absent,
             Absent,
             Some(ColumnPredicate("Range", Some(5), Absent))>>)

TestEqualityAndConsecutiveRangePredicates ==
  TestCase(CompositeIntKeys,
           <<Add(1, "EQ", 3),
             Add(2, "GE", 4),
             Add(2, "LE", 14),
             Add(3, "GE", 5),
             Add(3, "LE", 15),
             Optimize(TRUE)>>,
           TRUE, Some(<<3, 4, 5>>), Some(<<3, 15, INT8_MIN>>),
           <<Absent,
             Absent,
             Some(ColumnPredicate("Range", Some(5), Some(16)))>>)

TestNonPrefix ==
  TestCase(CompositeIntKeys,
           <<Add(2, "EQ", 64),
             Optimize(TRUE)>>,
           TRUE, Absent, Absent,
           <<Absent,
             Some(Equality(64)),
             Absent>>)

TestRedundantUpperBound ==
  TestCase(CompositeIntKeys,
           <<Add(1, "EQ", 127),
             Add(2, "GE", 3),
             Add(2, "LE", 127),
             Optimize(TRUE)>>,
           TRUE, Some(<<127, 3, INT8_MIN>>), Absent,
           <<Absent,
             Absent,
             Absent>>)

TestRedundantUpperBound2 ==
  TestCase(CompositeIntKeys,
           <<Add(1, "EQ", 1),
             Add(2, "GE", 3),
             Add(2, "LE", 127),
             Optimize(TRUE)>>,
           TRUE, Some(<<1, 3, INT8_MIN>>), Some(<<2, INT8_MIN, INT8_MIN>>),
           <<Absent,
             Absent,
             Absent>>)

TestRedundantUpperBound3 ==
  TestCase(CompositeIntKeys,
           <<Add(1, "EQ", 127),
             Add(2, "EQ", 127),
             Optimize(TRUE)>>,
           TRUE, Some(<<127, 127, INT8_MIN>>), Absent,
           <<Absent,
             Absent,
             Absent>>)

TestNoErasePredicates ==
  TestCase(CompositeIntKeys,
           <<Add(1, "EQ", 126),
             Optimize(FALSE)>>,
           TRUE, Some(<<126, INT8_MIN, INT8_MIN>>), Some(<<127, INT8_MIN, INT8_MIN>>),
           <<Some(Equality(126)),
             Absent,
             Absent>>)

TestNoErasePredicates2 ==
  TestCase(CompositeIntKeys,
           <<Add(1, "EQ", 126),
             Add(3, "EQ", 126),
             Optimize(TRUE)>>,
           TRUE, Some(<<126, INT8_MIN, INT8_MIN>>), Some(<<127, INT8_MIN, INT8_MIN>>),
           <<Absent,
             Absent,
             Some(Equality(126))>>)

TestPredicateOrderDoesntMatter ==
  TestCase(CompositeIntKeys,
           <<Add(2, "EQ", 126),
             Add(1, "EQ", 126),
             Optimize(TRUE)>>,
           TRUE, Some(<<126, 126, INT8_MIN>>), Some(<<126, 127, INT8_MIN>>),
           <<Absent,
             Absent,
             Absent>>)

TestLiftPrimaryKeyBounds_NoBounds ==
  TestCase(CompositeIntKeys,
           <<Optimize(FALSE)>>,
           FALSE, Absent, Absent,
           <<Absent,
             Absent,
             Absent>>)

TestLiftPrimaryKeyBounds_LowerBound1 ==
  TestCase(CompositeIntKeys,
           <<Lower(<<10, 11, 12>>),
             Optimize(FALSE)>>,
           FALSE, Absent, Absent,
           <<Some(ColumnPredicate("Range", Some(10), Absent)),
             Absent,
             Absent>>)

TestLiftPrimaryKeyBounds_LowerBound2 ==
  TestCase(CompositeIntKeys,
           <<Lower(<<10, 11, INT8_MIN>>),
             Optimize(FALSE)>>,
           FALSE, Absent, Absent,
           <<Some(ColumnPredicate("Range", Some(10), Absent)),
             Absent,
             Absent>>)

TestLiftPrimaryKeyBounds_LowerBound3 ==
  TestCase(CompositeIntKeys,
           <<Lower(<<10, INT8_MIN, INT8_MIN>>),
             Optimize(FALSE)>>,
           FALSE, Absent, Absent,
           <<Some(ColumnPredicate("Range", Some(10), Absent)),
             Absent,
             Absent>>)

TestLiftPrimaryKeyBounds_UpperBound1 ==
  TestCase(CompositeIntKeys,
           <<Upper(<<10, 11, 12>>),
             Optimize(FALSE)>>,
           FALSE, Absent, Absent,
           <<Some(ColumnPredicate("Range", Absent, Some(11))),
             Absent,
             Absent>>)

TestLiftPrimaryKeyBounds_UpperBound2 ==
  TestCase(CompositeIntKeys,
           <<Upper(<<10, 11, INT8_MIN>>),
             Optimize(FALSE)>>,
           FALSE, Absent, Absent,
           <<Some(ColumnPredicate("Range", Absent, Some(11))),
             Absent,
             Absent>>)

TestLiftPrimaryKeyBounds_UpperBound3 ==
  TestCase(CompositeIntKeys,
           <<Upper(<<10, INT8_MIN, INT8_MIN>>),
             Optimize(FALSE)>>,
           FALSE, Absent, Absent,
           <<Some(ColumnPredicate("Range", Absent, Some(10))),
             Absent,
             Absent>>)

TestLiftPrimaryKeyBounds_BothBounds1 ==
  TestCase(CompositeIntKeys,
           <<Lower(<<10, 11, 12>>),
             Upper(<<10, 11, 13>>),
             Optimize(FALSE)>>,
           FALSE, Absent, Absent,
           <<Some(Equality(10)),
             Some(Equality(11)),
             Some(Equality(12))>>)

TestLiftPrimaryKeyBounds_BothBounds2 ==
  TestCase(CompositeIntKeys,
           <<Lower(<<10, 11, 12>>),
             Upper(<<10, 11, 14>>),
             Optimize(FALSE)>>,
           FALSE, Absent, Absent,
           <<Some(Equality(10)),
             Some(Equality(11)),
             Some(ColumnPredicate("Range", Some(12), Some(14)))>>)

TestLiftPrimaryKeyBounds_BothBounds3 ==
  TestCase(CompositeIntKeys,
           <<Lower(<<10, 11, 12>>),
             Upper(<<10, 12, INT8_MIN>>),
             Optimize(FALSE)>>,
           FALSE, Absent, Absent,
           <<Some(Equality(10)),
             Some(Equality(11)),
             Some(ColumnPredicate("Range", Some(12), Absent))>>)

TestLiftPrimaryKeyBounds_BothBounds4 ==
  TestCase(CompositeIntKeys,
           <<Lower(<<10, 11, 12>>),
             Upper(<<10, 12, 13>>),
             Optimize(FALSE)>>,
           FALSE, Absent, Absent,
           <<Some(Equality(10)),
             Some(ColumnPredicate("Range", Some(11), Some(13))),
             Absent>>)

TestLiftPrimaryKeyBounds_BothBounds5 ==
  TestCase(CompositeIntKeys,
           <<Lower(<<10, 11, 12>>),
             Upper(<<11, INT8_MIN, INT8_MIN>>),
             Optimize(FALSE)>>,
           FALSE, Absent, Absent,
           <<Some(Equality(10)),
             Some(ColumnPredicate("Range", Some(11), Absent)),
             Absent>>)

TestLiftPrimaryKeyBounds_BothBounds6 ==
  TestCase(CompositeIntKeys,
           <<Lower(<<10, INT8_MIN, INT8_MIN>>),
             Upper(<<12, INT8_MIN, INT8_MIN>>),
             Optimize(FALSE)>>,
           FALSE, Absent, Absent,
           <<Some(ColumnPredicate("Range", Some(10), Some(12))),
             Absent,
             Absent>>)

TestLiftPrimaryKeyBounds_WithPredicates ==
  TestCase(CompositeIntKeys,
           <<Add(2, "GE", 15),
             Add(3, "GE", 3),
             Add(3, "LE", 100),
             Lower(<<10, INT8_MIN, INT8_MIN>>),
             Upper(<<10, 90, INT8_MIN>>),
             Optimize(FALSE)>>,
           FALSE, Absent, Absent,
           <<Some(Equality(10)),
             Some(ColumnPredicate("Range", Some(15), Some(90))),
             Some(ColumnPredicate("Range", Some(3), Some(101)))>>)

IntString_TestPrefixEquality ==
  TestCase(CompositeIntStringKeys,
           <<Add(1, "EQ", 64),
             Optimize(TRUE)>>,
           TRUE, Some(<<64, <<>>, <<>>>>), Some(<<65, <<>>, <<>>>>),
           <<Absent,
             Absent,
             Absent>>)

IntString_TestPrefixEqualityWithString ==
  TestCase(CompositeIntStringKeys,
           <<Add(1, "EQ", 64),
             Add(2, "EQ", <<97, 98, 99>>),
             Optimize(TRUE)>>,
           TRUE, Some(<<64, <<97, 98, 99>>, <<>>>>), Some(<<64, <<97, 98, 99, 0>>, <<>>>>),
           <<Absent,
             Absent,
             Absent>>)

SingleInt_TestEquality ==
  TestCase(SingleIntKey,
           <<Add(1, "EQ", 64),
             Optimize(TRUE)>>,
           TRUE, Some(<<64>>), Some(<<65>>),
           <<Absent>>)

SingleInt_TestRedundantUpperBound ==
  TestCase(SingleIntKey,
           <<Add(1, "EQ", 127),
             Optimize(TRUE)>>,
           TRUE, Some(<<127>>), Absent,
           <<Absent>>)

SingleInt_TestNoPredicates ==
  TestCase(SingleIntKey,
           <<Optimize(TRUE)>>,
           TRUE, Absent, Absent,
           <<Absent>>)

Tests ==
  [TestSimplify |-> TestSimplify,
   TestPrefixEquality |-> TestPrefixEquality,
   TestPrefixUpperBound |-> TestPrefixUpperBound,
   TestPrefixLowerBound |-> TestPrefixLowerBound,
   TestConsecutiveLowerRangePredicates |-> TestConsecutiveLowerRangePredicates,
   TestConsecutiveUpperRangePredicates |-> TestConsecutiveUpperRangePredicates,
   TestEqualityAndConsecutiveLowerRangePredicates |-> TestEqualityAndConsecutiveLowerRangePredicates,
   TestEqualityAndConsecutiveRangePredicates |-> TestEqualityAndConsecutiveRangePredicates,
   TestNonPrefix |-> TestNonPrefix,
   TestRedundantUpperBound |-> TestRedundantUpperBound,
   TestRedundantUpperBound2 |-> TestRedundantUpperBound2,
   TestRedundantUpperBound3 |-> TestRedundantUpperBound3,
   TestNoErasePredicates |-> TestNoErasePredicates,
   TestNoErasePredicates2 |-> TestNoErasePredicates2,
   TestPredicateOrderDoesntMatter |-> TestPredicateOrderDoesntMatter,
   TestLiftPrimaryKeyBounds_NoBounds |-> TestLiftPrimaryKeyBounds_NoBounds,
   TestLiftPrimaryKeyBounds_LowerBound1 |-> TestLiftPrimaryKeyBounds_LowerBound1,
   TestLiftPrimaryKeyBounds_LowerBound2 |-> TestLiftPrimaryKeyBounds_LowerBound2,
   TestLiftPrimaryKeyBounds_LowerBound3 |-> TestLiftPrimaryKeyBounds_LowerBound3,
   TestLiftPrimaryKeyBounds_UpperBound1 |-> TestLiftPrimaryKeyBounds_UpperBound1,
   TestLiftPrimaryKeyBounds_UpperBound2 |-> TestLiftPrimaryKeyBounds_UpperBound2,
   TestLiftPrimaryKeyBounds_UpperBound3 |-> TestLiftPrimaryKeyBounds_UpperBound3,
   TestLiftPrimaryKeyBounds_BothBounds1 |-> TestLiftPrimaryKeyBounds_BothBounds1,
   TestLiftPrimaryKeyBounds_BothBounds2 |-> TestLiftPrimaryKeyBounds_BothBounds2,
   TestLiftPrimaryKeyBounds_BothBounds3 |-> TestLiftPrimaryKeyBounds_BothBounds3,
   TestLiftPrimaryKeyBounds_BothBounds4 |-> TestLiftPrimaryKeyBounds_BothBounds4,
   TestLiftPrimaryKeyBounds_BothBounds5 |-> TestLiftPrimaryKeyBounds_BothBounds5,
   TestLiftPrimaryKeyBounds_BothBounds6 |-> TestLiftPrimaryKeyBounds_BothBounds6,
   TestLiftPrimaryKeyBounds_WithPredicates |-> TestLiftPrimaryKeyBounds_WithPredicates,
   IntString_TestPrefixEquality |-> IntString_TestPrefixEquality,
   IntString_TestPrefixEqualityWithString |-> IntString_TestPrefixEqualityWithString,
   SingleInt_TestEquality |-> SingleInt_TestEquality,
   SingleInt_TestRedundantUpperBound |-> SingleInt_TestRedundantUpperBound,
   SingleInt_TestNoPredicates |-> SingleInt_TestNoPredicates]

TestNames == DOMAIN Tests

(***************************************************************************)
(* Inputs of the exploration beyond the test cases: two fixtures driven    *)
(* with every sequence of calls within a budget, over small value sets     *)
(* that hold the domain's ends and two adjacent values.  A predicate       *)
(* costs two units of work and a bound key (a whole row of cells) three.   *)
(***************************************************************************)
MaxWork == 6

FreeNames == {"FreeIntKeys", "FreeIntStringKeys"}

ComparisonOp == {"GE", "EQ", "LE"}

IntVals == {INT8_MIN, INT8_MAX - 1, INT8_MAX}

StrVals == {<<>>, <<1>>}

FreeVals(type) == IF type = "INT8" THEN IntVals ELSE StrVals

\* the free fixtures have three key columns
FreeRows(schema) ==
  {<<x, y, z>> : x \in FreeVals(schema[1]),
                 y \in FreeVals(schema[2]),
                 z \in FreeVals(schema[3])}

VARIABLES
  test,                       \* the running test case, or a free fixture
  schema,                     \* schema_ of the fixture
  predicates,                 \* ScanSpec::predicates_
  lower_bound_key,            \* ScanSpec::lower_bound_key_
  exclusive_upper_bound_key,  \* ScanSpec::exclusive_upper_bound_key_
  pc,                         \* "build", "optimized", "reoptimized"
  step,                       \* calls of the test case made so far
  erase,                      \* remove_pushed_predicates of the OptimizeScan call
  added,                      \* history: the constraints <<col, cmp, val>> added
  lowers,                     \* history: the rows given to SetLowerBound
  uppers,                     \* history: the rows given to SetExclusiveUpperBound
  pre                         \* history: the ScanSpec before each OptimizeScan

vars == <<test, schema, predicates, lower_bound_key, exclusive_upper_bound_key,
          pc, step, erase, added, lowers, uppers, pre>>

ScanSpec(preds, lower, upper) ==
  [predicates |-> preds, lower_bound_key |-> lower,
   exclusive_upper_bound_key |-> upper]

spec_ == ScanSpec(predicates, lower_bound_key, exclusive_upper_bound_key)

FixtureSchema(t) ==
  IF t \in TestNames THEN Tests[t].schema
  ELSE IF t = "FreeIntKeys" THEN CompositeIntKeys
  ELSE CompositeIntStringKeys

Init ==
  /\ test \in TestNames \cup FreeNames
  /\ schema = FixtureSchema(test)
  /\ predicates = NoPredicates(schema)
  /\ lower_bound_key = Absent
  /\ exclusive_upper_bound_key = Absent
  /\ pc = "build"
  /\ step = 0
  /\ erase = FALSE
  /\ added = {}
  /\ lowers = {}
  /\ uppers = {}
  /\ pre = <<>>

Scripted == test \in TestNames

HasNextCall(call) ==
  /\ Scripted
  /\ step < Len(Tests[test].calls)
  /\ Tests[test].calls[step + 1].call = call

NextCall == Tests[test].calls[step + 1]

Work ==
  2 * Cardinality(added) + 3 * (Cardinality(lowers) + Cardinality(uppers))

Budget(work) == Work + work <= MaxWork

\* TestAddPredicate with the break of case GE missing: GE falls through to EQ
TestAddPredicate_GeFallsThrough(sch, preds, col, cmp, val) ==
  CASE cmp = "GE" ->
         AddPredicate(sch,
                      AddPredicate(sch, preds, col, Range(sch[col], Some(val), Absent)),
                      col, Equality(val))
    [] cmp = "EQ" -> AddPredicate(sch, preds, col, Equality(val))
    [] cmp = "LE" ->
         LET p == InclusiveRange(sch[col], Absent, Some(val))
         IN IF IsSet(p) THEN AddPredicate(sch, preds, col, Get(p)) ELSE preds

\* TestAddPredicate with the check of the optional missing in case LE: an
\* empty result is added as a Range without bounds
TestAddPredicate_LeUnchecked(sch, preds, col, cmp, val) ==
  CASE cmp = "GE" -> AddPredicate(sch, preds, col, Range(sch[col], Some(val), Absent))
    [] cmp = "EQ" -> AddPredicate(sch, preds, col, Equality(val))
    [] cmp = "LE" ->
         LET p == InclusiveRange(sch[col], Absent, Some(val))
         IN AddPredicate(sch, preds, col,
                         IF IsSet(p) THEN Get(p)
                         ELSE ColumnPredicate("Range", Absent, Absent))

\* TestAddPredicate with LE passed on as an exclusive upper bound
TestAddPredicate_LeExclusive(sch, preds, col, cmp, val) ==
  CASE cmp = "GE" -> AddPredicate(sch, preds, col, Range(sch[col], Some(val), Absent))
    [] cmp = "EQ" -> AddPredicate(sch, preds, col, Equality(val))
    [] cmp = "LE" -> AddPredicate(sch, preds, col, Range(sch[col], Absent, Some(val)))

\* TestAddPredicate with the arguments of Range swapped in case GE
TestAddPredicate_GeAsUpper(sch, preds, col, cmp, val) ==
  CASE cmp = "GE" -> AddPredicate(sch, preds, col, Range(sch[col], Absent, Some(val)))
    [] cmp = "EQ" -> AddPredicate(sch, preds, col, Equality(val))
    [] cmp = "LE" ->
         LET p == InclusiveRange(sch[col], Absent, Some(val))
         IN IF IsSet(p) THEN AddPredicate(sch, preds, col, Get(p)) ELSE preds

\* TestAddPredicate with EQ handled as GE
TestAddPredicate_EqAsGe(sch, preds, col, cmp, val) ==
  CASE cmp = "GE" -> AddPredicate(sch, preds, col, Range(sch[col], Some(val), Absent))
    [] cmp = "EQ" -> AddPredicate(sch, preds, col, Range(sch[col], Some(val), Absent))
    [] cmp = "LE" ->
         LET p == InclusiveRange(sch[col], Absent, Some(val))
         IN IF IsSet(p) THEN AddPredicate(sch, preds, col, Get(p)) ELSE preds

\* TestAddPredicate with LE passed on as an inclusive lower bound
TestAddPredicate_LeAsLower(sch, preds, col, cmp, val) ==
  CASE cmp = "GE" -> AddPredicate(sch, preds, col, Range(sch[col], Some(val), Absent))
    [] cmp = "EQ" -> AddPredicate(sch, preds, col, Equality(val))
    [] cmp = "LE" ->
         LET p == InclusiveRange(sch[col], Some(val), Absent)
         IN IF IsSet(p) THEN AddPredicate(sch, preds, col, Get(p)) ELSE preds

\* TestScanSpec::AddPredicate: GE adds Range(val, none), EQ adds Equality(val),
\* LE adds InclusiveRange(none, val) when that yields a predicate
TestAddPredicate(sch, preds, col, cmp, val) ==
  CASE cmp = "GE" -> AddPredicate(sch, preds, col, Range(sch[col], Some(val), Absent))
    [] cmp = "EQ" -> AddPredicate(sch, preds, col, Equality(val))
    [] cmp = "LE" ->
         LET p == InclusiveRange(sch[col], Absent, Some(val))
         IN IF IsSet(p) THEN AddPredicate(sch, preds, col, Get(p)) ELSE preds

AddVals(col, cmp) ==
  IF Scripted
  THEN IF HasNextCall("AddPredicate") /\ NextCall.col = col /\ NextCall.cmp = cmp
       THEN {NextCall.val} ELSE {}
  ELSE IF Budget(2) THEN FreeVals(schema[col]) ELSE {}

DoAddPredicate ==
  /\ pc = "build"
  /\ \E col \in 1..Len(schema), cmp \in ComparisonOp :
       \E val \in AddVals(col, cmp) :
          /\ predicates' = TestAddPredicate(schema, predicates, col, cmp, val)
          /\ added' = added \cup {<<col, cmp, val>>}
  /\ step' = IF Scripted THEN step + 1 ELSE step
  /\ UNCHANGED <<test, schema, lower_bound_key, exclusive_upper_bound_key,
                 pc, erase, lowers, uppers, pre>>

BoundRows(call) ==
  IF Scripted
  THEN IF HasNextCall(call) THEN {NextCall.row} ELSE {}
  ELSE IF Budget(3) THEN FreeRows(schema) ELSE {}

\* SetLowerBound setting the exclusive upper bound key
DoSetLowerBound_AsUpper ==
  /\ pc = "build"
  /\ \E row \in BoundRows("SetLowerBound") :
       /\ exclusive_upper_bound_key' =
            SetExclusiveUpperBoundKey(exclusive_upper_bound_key, EncodedKey(schema, row))
       /\ lowers' = lowers \cup {row}
  /\ step' = IF Scripted THEN step + 1 ELSE step
  /\ UNCHANGED <<test, schema, predicates, lower_bound_key,
                 pc, erase, added, uppers, pre>>

\* TestScanSpec::SetLowerBound
DoSetLowerBound ==
  /\ pc = "build"
  /\ \E row \in BoundRows("SetLowerBound") :
       /\ lower_bound_key' = SetLowerBoundKey(lower_bound_key, EncodedKey(schema, row))
       /\ lowers' = lowers \cup {row}
  /\ step' = IF Scripted THEN step + 1 ELSE step
  /\ UNCHANGED <<test, schema, predicates, exclusive_upper_bound_key,
                 pc, erase, added, uppers, pre>>

\* SetExclusiveUpperBound setting the lower bound key
DoSetExclusiveUpperBound_AsLower ==
  /\ pc = "build"
  /\ \E row \in BoundRows("SetExclusiveUpperBound") :
       /\ lower_bound_key' = SetLowerBoundKey(lower_bound_key, EncodedKey(schema, row))
       /\ uppers' = uppers \cup {row}
  /\ step' = IF Scripted THEN step + 1 ELSE step
  /\ UNCHANGED <<test, schema, predicates, exclusive_upper_bound_key,
                 pc, erase, added, lowers, pre>>

\* TestScanSpec::SetExclusiveUpperBound
DoSetExclusiveUpperBound ==
  /\ pc = "build"
  /\ \E row \in BoundRows("SetExclusiveUpperBound") :
       /\ exclusive_upper_bound_key' =
            SetExclusiveUpperBoundKey(exclusive_upper_bound_key, EncodedKey(schema, row))
       /\ uppers' = uppers \cup {row}
  /\ step' = IF Scripted THEN step + 1 ELSE step
  /\ UNCHANGED <<test, schema, predicates, lower_bound_key,
                 pc, erase, added, lowers, pre>>

EraseFlags ==
  IF Scripted
  THEN IF HasNextCall("OptimizeScan") THEN {NextCall.erase} ELSE {}
  ELSE BOOLEAN

\* OptimizeScan called with erasure whatever the flag
DoOptimizeScan_AlwaysErase ==
  /\ pc = "build"
  /\ \E e \in EraseFlags :
       LET optimized == OptimizeScan(schema, spec_, TRUE)
       IN /\ predicates' = optimized.predicates
          /\ lower_bound_key' = optimized.lower_bound_key
          /\ exclusive_upper_bound_key' = optimized.exclusive_upper_bound_key
          /\ erase' = e
  /\ pc' = "optimized"
  /\ pre' = <<spec_>>
  /\ step' = IF Scripted THEN step + 1 ELSE step
  /\ UNCHANGED <<test, schema, added, lowers, uppers>>

\* spec.OptimizeScan(schema_, &arena_, &pool_, remove_pushed_predicates)
DoOptimizeScan ==
  /\ pc = "build"
  /\ \E e \in EraseFlags :
       LET optimized == OptimizeScan(schema, spec_, e)
       IN /\ predicates' = optimized.predicates
          /\ lower_bound_key' = optimized.lower_bound_key
          /\ exclusive_upper_bound_key' = optimized.exclusive_upper_bound_key
          /\ erase' = e
  /\ pc' = "optimized"
  /\ pre' = <<spec_>>
  /\ step' = IF Scripted THEN step + 1 ELSE step
  /\ UNCHANGED <<test, schema, added, lowers, uppers>>

\* a second OptimizeScan on the optimized ScanSpec, same schema and flag
DoOptimizeScanAgain ==
  /\ pc = "optimized"
  /\ LET optimized == OptimizeScan(schema, spec_, erase)
     IN /\ predicates' = optimized.predicates
        /\ lower_bound_key' = optimized.lower_bound_key
        /\ exclusive_upper_bound_key' = optimized.exclusive_upper_bound_key
  /\ pc' = "reoptimized"
  /\ pre' = Append(pre, spec_)
  /\ UNCHANGED <<test, schema, step, erase, added, lowers, uppers>>

Next ==
  \/ DoAddPredicate
  \/ DoSetLowerBound
  \/ DoSetExclusiveUpperBound
  \/ DoOptimizeScan
  \/ DoOptimizeScanAgain

Spec == Init /\ [][Next]_vars

(***************************************************************************)
(* The assertions of the test cases hold of the model.                     *)
(***************************************************************************)
AtEndOfTest ==
  /\ Scripted
  /\ step = Len(Tests[test].calls)
  /\ pc \in {"build", "optimized"}

RawKeys(key) == IF IsSet(key) THEN Some(Get(key).raw_keys) ELSE Absent

TestAssertionsHold ==
  AtEndOfTest =>
    /\ predicates = Tests[test].predicates
    /\ Tests[test].keys =>
         /\ RawKeys(lower_bound_key) = Tests[test].lower
         /\ RawKeys(exclusive_upper_bound_key) = Tests[test].upper

(***************************************************************************)
(* Row-level meaning of the calls made and of the optimized ScanSpec.      *)
(***************************************************************************)
\* the cell satisfies the constraint as the caller stated it
SatisfiesConstraint(type, cmp, val, cell) ==
  CASE cmp = "GE" -> Compare(type, cell, val) >= 0
    [] cmp = "EQ" -> Compare(type, cell, val) = 0
    [] cmp = "LE" -> Compare(type, cell, val) <= 0

\* the row satisfies every constraint added and lies within every bound given
MatchesOriginal(row) ==
  /\ \A c \in added : SatisfiesConstraint(schema[c[1]], c[2], c[3], row[c[1]])
  /\ \A l \in lowers : KeyCompare(EncodedKey(schema, row), EncodedKey(schema, l)) >= 0
  /\ \A u \in uppers : KeyCompare(EncodedKey(schema, row), EncodedKey(schema, u)) < 0

InKeyRange(row, lower, upper) ==
  /\ IsSet(lower) => KeyCompare(EncodedKey(schema, row), Get(lower)) >= 0
  /\ IsSet(upper) => KeyCompare(EncodedKey(schema, row), Get(upper)) < 0

MatchesPredicates(row, preds) ==
  \A i \in 1..Len(schema) :
     IsSet(preds[i]) => EvaluateCell(schema[i], Get(preds[i]), row[i])

\* the row is returned by a scan of the ScanSpec as it stands
MatchesScanSpec(row) ==
  /\ InKeyRange(row, lower_bound_key, exclusive_upper_bound_key)
  /\ MatchesPredicates(row, predicates)

\* the cell values the calls mention for a key column
Mentioned(col) ==
  {c[3] : c \in {d \in added : d[1] = col}}
    \cup {r[col] : r \in lowers} \cup {r[col] : r \in uppers}

\* a cell at, just below and just above each mentioned value, and the ends
\* of the domain: one cell for every way a cell can compare with a bound
Cells(col) ==
  IF schema[col] = "INT8"
  THEN {INT8_MIN, INT8_MAX} \cup
       {v \in UNION {{m - 1, m, m + 1, m + 2} : m \in Mentioned(col)} :
          INT8_MIN <= v /\ v <= INT8_MAX}
  ELSE {<<>>, <<0>>, <<2>>} \cup
       UNION {{m, Append(m, 0), Append(Append(m, 0), 0), Append(m, 1)} :
                m \in Mentioned(col)}

\* the fixtures have one or three key columns
Rows ==
  IF Len(schema) = 1
  THEN {<<x>> : x \in Cells(1)}
  ELSE {<<x, y, z>> : x \in Cells(1), y \in Cells(2), z \in Cells(3)}

(***************************************************************************)
(* C1.  Equivalence of Optimize: after OptimizeScan with erasure           *)
(* requested, a row satisfies every constraint added and every explicit    *)
(* bound given if and only if its key lies in the final                    *)
(* [lower key, upper key) and it satisfies every predicate left in the map.*)
(***************************************************************************)
C1_Equivalence ==
  (pc = "optimized" /\ erase) =>
     \A row \in Rows : MatchesOriginal(row) <=> MatchesScanSpec(row)

\* reached: a free run whose optimized ScanSpec has both bound keys and a
\* residual predicate that rejects a row of the key range, with a matching row
C1_Witness ==
  /\ pc = "optimized" /\ erase /\ test \in FreeNames
  /\ IsSet(lower_bound_key) /\ IsSet(exclusive_upper_bound_key)
  /\ \E row \in Rows : MatchesOriginal(row)
  /\ \E row \in Rows :
       /\ InKeyRange(row, lower_bound_key, exclusive_upper_bound_key)
       /\ ~MatchesPredicates(row, predicates)

(***************************************************************************)
(* C2.  Idempotence of Optimize: a second OptimizeScan (same schema, same  *)
(* erase flag) on the optimized ScanSpec leaves the lower key, the upper   *)
(* key, the empty flag and the predicate map unchanged.                    *)
(***************************************************************************)
Unchanged2 ==
  /\ predicates = pre[2].predicates
  /\ lower_bound_key = pre[2].lower_bound_key
  /\ exclusive_upper_bound_key = pre[2].exclusive_upper_bound_key
  /\ CanShortCircuit(spec_) = CanShortCircuit(pre[2])

C2_Idempotence == pc = "reoptimized" => Unchanged2

(***************************************************************************)
(* C3.  Order independence of AddPredicate/Merge: the predicate map is a   *)
(* function of the set of constraints added, whatever the order of the     *)
(* calls (it is the map obtained by adding them in one fixed order), and   *)
(* so is the ScanSpec handed to OptimizeScan.                              *)
(***************************************************************************)
RECURSIVE AddInFixedOrder(_)
AddInFixedOrder(constraints) ==
  IF constraints = {} THEN NoPredicates(schema)
  ELSE LET c == CHOOSE d \in constraints : TRUE
       IN TestAddPredicate(schema, AddInFixedOrder(constraints \ {c}),
                           c[1], c[2], c[3])

C3_OrderIndependence ==
  /\ pc = "build" => predicates = AddInFixedOrder(added)
  /\ pc = "optimized" => pre[1].predicates = AddInFixedOrder(added)

\* reached: a free run that added three constraints to one column
C3_Witness ==
  /\ test \in FreeNames /\ pc = "build"
  /\ \E col \in 1..Len(schema) :
       /\ Cardinality({c \in added : c[1] = col}) = 3
       /\ IsSet(predicates[col])
       /\ Get(predicates[col]).predicate_type = "Equality"

(***************************************************************************)
(* The intersection of the constraints added to a column, computed from    *)
(* the set of constraints: the largest inclusive low, the smallest         *)
(* exclusive high (v + 1 for "<= v", none at the maximum), the equality    *)
(* values.                                                                 *)
(***************************************************************************)
Lows(col) == {c[3] : c \in {d \in added : d[1] = col /\ d[2] = "GE"}}

Highs(col) ==
  {IncrementCell(schema[col], v).cell :
     v \in {w \in {c[3] : c \in {d \in added : d[1] = col /\ d[2] = "LE"}} :
              IncrementCell(schema[col], w).ok}}

Equals(col) == {c[3] : c \in {d \in added : d[1] = col /\ d[2] = "EQ"}}

Largest(type, S) ==
  IF S = {} THEN Absent
  ELSE Some(CHOOSE x \in S : \A y \in S : Compare(type, x, y) >= 0)

Smallest(type, S) ==
  IF S = {} THEN Absent
  ELSE Some(CHOOSE x \in S : \A y \in S : Compare(type, x, y) <= 0)

\* the Range part under a rule that says when [low, high) is an Equality
\* and when it is unsatisfiable
RangePart(col, IsEquality(_, _, _), IsEmpty(_, _, _)) ==
  LET type == schema[col]
      low == Largest(type, Lows(col))
      high == Smallest(type, Highs(col))
  IN IF ~IsSet(low) /\ ~IsSet(high) THEN Absent
     ELSE IF IsSet(low) /\ IsSet(high) /\ IsEmpty(type, Get(low), Get(high))
          THEN Some(SetToNone)
     ELSE IF IsSet(low) /\ IsSet(high) /\ IsEquality(type, Get(low), Get(high))
          THEN Some(Equality(Get(low)))
     ELSE Some(ColumnPredicate("Range", low, high))

Intersection(col, IsEquality(_, _, _), IsEmpty(_, _, _)) ==
  LET type == schema[col]
      range == RangePart(col, IsEquality, IsEmpty)
      eqs == Equals(col)
      v == CHOOSE x \in eqs : TRUE
  IN IF eqs = {} THEN range
     ELSE IF Cardinality(eqs) > 1 THEN Some(SetToNone)
     ELSE IF ~IsSet(range) THEN Some(Equality(v))
     ELSE IF EvaluateCell(type, Get(range), v) THEN Some(Equality(v))
     ELSE Some(SetToNone)

SameBounds(type, low, high) == Compare(type, low, high) = 0

LowAboveHigh(type, low, high) == Compare(type, low, high) > 0

LowNotBelowHigh(type, low, high) == Compare(type, low, high) >= 0

ScenarioA ==
  <<Some(Equality(127)),
    Some(ColumnPredicate("Range", Some(3), Some(101))),
    Some(ColumnPredicate("Range", Absent, Some(65)))>>

(***************************************************************************)
(* C4 as stated.  Merge computes the intersection of the predicates on a   *)
(* column: low = max of the lows, high = min of the highs, low == high     *)
(* collapses to Equality, low > high is unsatisfiable; an Equality is kept *)
(* iff it lies within the range and equals every other Equality; scenario  *)
(* A merges to a = 127, b in [3, 101), c < 65.                             *)
(***************************************************************************)
C4_MergeAsStated ==
  /\ pc = "build" =>
       \A col \in 1..Len(schema) :
          predicates[col] = Intersection(col, SameBounds, LowAboveHigh)
  /\ (test = "TestSimplify" /\ AtEndOfTest) => predicates = ScenarioA

(***************************************************************************)
(* C4 as amended.  The same, except that the high bound is exclusive:      *)
(* [low, high) collapses to Equality(low) when high is the value next      *)
(* after low, and is unsatisfiable when low >= high.                       *)
(***************************************************************************)
C4_MergeIntersection ==
  /\ pc = "build" =>
       \A col \in 1..Len(schema) :
          predicates[col] = Intersection(col, AreConsecutive, LowNotBelowHigh)
  /\ (test = "TestSimplify" /\ AtEndOfTest) => predicates = ScenarioA

\* reached: a free run merged ">= MAX" with "<= MAX - 1", the range
\* [MAX, MAX), into the unsatisfiable marker
C4_Witness ==
  /\ test \in FreeNames /\ pc = "build"
  /\ \E col \in 1..Len(schema) :
       /\ schema[col] = "INT8"
       /\ {c \in added : c[1] = col} =
            {<<col, "GE", INT8_MAX>>, <<col, "LE", INT8_MAX - 1>>}
       /\ predicates[col] = Some(SetToNone)

(***************************************************************************)
(* C5.  Inclusive-to-exclusive conversion: a column whose only constraint  *)
(* is "<= v" holds, for INT8, the Range with exclusive bound v + 1 when    *)
(* v < MAX and no predicate at all when v = MAX; for STRING, always the    *)
(* Range with exclusive bound v followed by one zero byte.  No predicate   *)
(* added is a Range without bounds, and no INT8 bound has wrapped to MIN.  *)
(***************************************************************************)
OnlyConstraint(col, cmp, val) == {c \in added : c[1] = col} = {<<col, cmp, val>>}

C5_InclusiveToExclusive ==
  pc = "build" =>
    \A col \in 1..Len(schema) :
       /\ \A c \in added :
            (c[1] = col /\ c[2] = "LE" /\ OnlyConstraint(col, "LE", c[3])) =>
               predicates[col] =
                 IF schema[col] = "INT8"
                 THEN IF c[3] < INT8_MAX
                      THEN Some(ColumnPredicate("Range", Absent, Some(c[3] + 1)))
                      ELSE Absent
                 ELSE Some(ColumnPredicate("Range", Absent, Some(c[3] \o <<0>>)))
       /\ IsSet(predicates[col]) =>
            LET p == Get(predicates[col])
            IN /\ p.predicate_type = "Range" => (IsSet(p.lower) \/ IsSet(p.upper))
               /\ (schema[col] = "INT8" /\ IsSet(p.upper)) => Get(p.upper) > INT8_MIN

\* reached: "<= MAX" left an INT8 column without predicate and "<= v" gave a
\* STRING column the bound v followed by a zero byte
C5_Witness ==
  /\ test = "FreeIntStringKeys" /\ pc = "build"
  /\ added = {<<1, "LE", INT8_MAX>>, <<2, "LE", <<1>>>>}
  /\ predicates[1] = Absent
  /\ predicates[2] = Some(ColumnPredicate("Range", Absent, Some(<<1, 0>>)))

(***************************************************************************)
(* The predicates the Push step of OptimizeScan started from: those of the *)
(* ScanSpec before the call, merged with what Lift derived from its bound  *)
(* keys.  Without explicit bound keys Lift adds nothing and the final keys *)
(* are the derived ones.                                                   *)
(***************************************************************************)
Optimized == pc = "optimized"

NoExplicitBounds == lowers = {} /\ uppers = {}

Before == LiftPrimaryKeyBounds(schema, pre[1])

HasLowerValue(i) == IsSet(Before[i]) /\ IsSet(Get(Before[i]).lower)

LowerValue(i) == Get(Get(Before[i]).lower)

IsEqualityColumn(i) ==
  IsSet(Before[i]) /\ Get(Before[i]).predicate_type = "Equality"

IsRangeColumn(i) ==
  i <= Len(schema) /\ IsSet(Before[i]) /\ Get(Before[i]).predicate_type = "Range"

HasHigh(i) == IsRangeColumn(i) /\ IsSet(Get(Before[i]).upper)

\* the length of the longest leading run of key columns that satisfy Q
LeadingRun(Q(_)) ==
  Cardinality({k \in 1..Len(schema) : \A i \in 1..k : Q(i)})

(***************************************************************************)
(* C6.  Push lower key: the derived lower key holds the lower-bound values *)
(* (the value of an Equality, the low of a Range) of the longest leading   *)
(* run of key columns that have one, in key order, and MIN in every later  *)
(* column; without a lower-bound value on the first column no lower key is *)
(* derived.  With erasure, the Range predicates on the columns after the   *)
(* first Range column stay in the map: a >= 3, b >= 4, c >= 5 gives lower  *)
(* key (3,4,5), no upper key and the residuals b >= 4 and c >= 5.          *)
(***************************************************************************)
C6_PushLowerKey ==
  /\ (Optimized /\ NoExplicitBounds) =>
       LET n == LeadingRun(HasLowerValue)
       IN /\ n = 0 => lower_bound_key = Absent
          /\ n > 0 =>
               RawKeys(lower_bound_key) =
                 Some([i \in 1..Len(schema) |->
                         IF i <= n THEN LowerValue(i) ELSE MinValue(schema[i])])
          /\ \A f, i \in 1..Len(schema) :
               (f < i /\ IsRangeColumn(f) /\ IsRangeColumn(i)) =>
                  predicates[i] = Before[i]
  /\ (test = "TestConsecutiveLowerRangePredicates" /\ AtEndOfTest) =>
       /\ RawKeys(lower_bound_key) = Some(<<3, 4, 5>>)
       /\ exclusive_upper_bound_key = Absent
       /\ predicates = <<Absent,
                         Some(ColumnPredicate("Range", Some(4), Absent)),
                         Some(ColumnPredicate("Range", Some(5), Absent))>>

\* reached: a free run with erasure whose lower key chains an Equality and two
\* Range lows, the later Range staying in the map
C6_Witness ==
  /\ Optimized /\ NoExplicitBounds /\ erase /\ test \in FreeNames
  /\ IsEqualityColumn(1) /\ IsRangeColumn(2) /\ IsRangeColumn(3)
  /\ LeadingRun(HasLowerValue) = 3
  /\ predicates[2] = Absent /\ IsSet(predicates[3])

(***************************************************************************)
(* C7.  Push upper key from an equality prefix: with Equality predicates   *)
(* on key columns 1..k and no usable high bound on column k + 1, the upper *)
(* key replaces the rightmost prefix column below MAX by its successor     *)
(* (a STRING cell always has one: the cell with a zero byte appended),     *)
(* keeps the columns to its left and sets every column to its right to     *)
(* MIN; if every prefix column is at MAX there is no upper key.            *)
(***************************************************************************)
HasSuccessor(i) == schema[i] = "STRING" \/ LowerValue(i) < INT8_MAX

Successor(i) ==
  IF schema[i] = "STRING" THEN LowerValue(i) \o <<0>> ELSE LowerValue(i) + 1

C7_PushUpperKeyFromPrefix ==
  /\ (Optimized /\ NoExplicitBounds) =>
       LET k == LeadingRun(IsEqualityColumn)
           carry == {i \in 1..k : HasSuccessor(i)}
           j == CHOOSE i \in carry : \A h \in carry : h <= i
       IN (k > 0 /\ ~HasHigh(k + 1)) =>
            IF carry = {} THEN exclusive_upper_bound_key = Absent
            ELSE RawKeys(exclusive_upper_bound_key) =
                   Some([i \in 1..Len(schema) |->
                           IF i < j THEN LowerValue(i)
                           ELSE IF i = j THEN Successor(i)
                           ELSE MinValue(schema[i])])
  /\ (test = "TestRedundantUpperBound" /\ AtEndOfTest) =>
       /\ RawKeys(lower_bound_key) = Some(<<127, 3, INT8_MIN>>)
       /\ exclusive_upper_bound_key = Absent
  /\ (test = "TestRedundantUpperBound3" /\ AtEndOfTest) =>
       exclusive_upper_bound_key = Absent
  /\ (test = "IntString_TestPrefixEqualityWithString" /\ AtEndOfTest) =>
       RawKeys(exclusive_upper_bound_key) = Some(<<64, <<97, 98, 99, 0>>, <<>>>>)

\* reached: a free run whose carry passes a prefix column at MAX and stops
\* at the column before it
C7_Witness ==
  /\ Optimized /\ NoExplicitBounds /\ test = "FreeIntKeys"
  /\ IsEqualityColumn(1) /\ IsEqualityColumn(2) /\ ~IsSet(Before[3])
  /\ LowerValue(1) = INT8_MAX - 1 /\ LowerValue(2) = INT8_MAX
  /\ RawKeys(exclusive_upper_bound_key) = Some(<<INT8_MAX, INT8_MIN, INT8_MIN>>)

(***************************************************************************)
(* C8.  Push upper key with a trailing Range: with Equality predicates on  *)
(* key columns 1..k (k may be 0) and a Range with exclusive high bound h   *)
(* on column k + 1, the upper key is exactly (v1..vk, h, MIN, ...): no     *)
(* successor is applied to h and the columns after k + 1 contribute        *)
(* nothing.                                                                *)
(***************************************************************************)
C8_PushUpperKeyTrailingRange ==
  /\ (Optimized /\ NoExplicitBounds) =>
       LET k == LeadingRun(IsEqualityColumn)
       IN HasHigh(k + 1) =>
            RawKeys(exclusive_upper_bound_key) =
              Some([i \in 1..Len(schema) |->
                      IF i <= k THEN LowerValue(i)
                      ELSE IF i = k + 1 THEN Get(Get(Before[i]).upper)
                      ELSE MinValue(schema[i])])
  /\ (test = "TestEqualityAndConsecutiveRangePredicates" /\ AtEndOfTest) =>
       RawKeys(exclusive_upper_bound_key) = Some(<<3, 15, INT8_MIN>>)
  /\ (test = "TestConsecutiveUpperRangePredicates" /\ AtEndOfTest) =>
       RawKeys(exclusive_upper_bound_key) = Some(<<4, INT8_MIN, INT8_MIN>>)
  /\ (test = "TestPrefixUpperBound" /\ AtEndOfTest) =>
       RawKeys(exclusive_upper_bound_key) = Some(<<127, INT8_MIN, INT8_MIN>>)

\* reached: a free run with an Equality, a Range with a high bound and a
\* predicate on the last column, whose upper key ends in MIN
C8_Witness ==
  /\ Optimized /\ NoExplicitBounds /\ test = "FreeIntKeys"
  /\ IsEqualityColumn(1) /\ HasHigh(2) /\ IsSet(Before[3])
  /\ RawKeys(exclusive_upper_bound_key) =
       Some(<<LowerValue(1), Get(Get(Before[2]).upper), INT8_MIN>>)

(***************************************************************************)
(* C9.  Prune: with erasure exactly the equality-prefix columns and the    *)
(* Range column that follows the prefix are removed from the map, and the  *)
(* predicates that were not or only partly pushed (a later Range column, a *)
(* column after a gap in the key prefix) stay; without erasure no          *)
(* predicate is removed and the lower and upper keys are those of the same *)
(* call with erasure.                                                      *)
(***************************************************************************)
C9_Prune ==
  /\ (Optimized /\ erase) =>
       LET k == LeadingRun(IsEqualityColumn)
       IN \A i \in 1..Len(schema) :
            predicates[i] = IF i <= k \/ (i = k + 1 /\ IsRangeColumn(i))
                            THEN Absent ELSE Before[i]
  /\ (Optimized /\ ~erase) =>
       LET erasing == OptimizeScan(schema, pre[1], TRUE)
       IN /\ predicates = Before
          /\ \A i \in 1..Len(schema) :
               IsSet(pre[1].predicates[i]) => IsSet(predicates[i])
          /\ lower_bound_key = erasing.lower_bound_key
          /\ exclusive_upper_bound_key = erasing.exclusive_upper_bound_key
  /\ (test = "TestNoErasePredicates" /\ AtEndOfTest) =>
       /\ predicates = <<Some(Equality(126)), Absent, Absent>>
       /\ RawKeys(lower_bound_key) = Some(<<126, INT8_MIN, INT8_MIN>>)
       /\ RawKeys(exclusive_upper_bound_key) = Some(<<127, INT8_MIN, INT8_MIN>>)
  /\ (test = "TestNoErasePredicates2" /\ AtEndOfTest) =>
       predicates = <<Absent, Absent, Some(Equality(126))>>
  /\ (test = "TestEqualityAndConsecutiveLowerRangePredicates" /\ AtEndOfTest) =>
       predicates = <<Absent, Absent, Some(ColumnPredicate("Range", Some(5), Absent))>>

\* reached: a free run with erasure that removes an Equality and the Range
\* after it and keeps the Range on the last column
C9_Witness ==
  /\ Optimized /\ erase /\ test = "FreeIntStringKeys"
  /\ IsEqualityColumn(1) /\ IsRangeColumn(2) /\ IsRangeColumn(3)
  /\ predicates[1] = Absent /\ predicates[2] = Absent
  /\ predicates[3] = Before[3]
  /\ IsSet(lower_bound_key)

(***************************************************************************)
(* C10.  Lift is sound: every row whose key lies within the explicit bound *)
(* keys (and that satisfies the predicates already in the map) satisfies   *)
(* every predicate of the map after Lift.  An upper key alone whose        *)
(* columns after the first are not all MIN lifts an inclusive bound on the *)
(* first column, one whose later columns are all MIN an exclusive one      *)
(* (key < (10,11,12) lifts a < 11, key < (10,MIN,MIN) lifts a < 10), and   *)
(* without bound keys Lift adds no predicate.                              *)
(***************************************************************************)
InExplicitRange(row) ==
  /\ \A l \in lowers : KeyCompare(EncodedKey(schema, row), EncodedKey(schema, l)) >= 0
  /\ \A u \in uppers : KeyCompare(EncodedKey(schema, row), EncodedKey(schema, u)) < 0

SuffixIsMin(row) ==
  \A j \in 2..Len(schema) : Compare(schema[j], row[j], MinValue(schema[j])) = 0

C10_LiftSound ==
  /\ (Optimized /\ ~erase) =>
       /\ \A row \in Rows :
            (InExplicitRange(row) /\ MatchesPredicates(row, pre[1].predicates)) =>
               MatchesPredicates(row, predicates)
       /\ \A u \in uppers :
            (added = {} /\ lowers = {} /\ uppers = {u}) =>
               /\ (SuffixIsMin(u) /\ u[1] > INT8_MIN) =>
                    predicates[1] = Some(ColumnPredicate("Range", Absent, Some(u[1])))
               /\ (~SuffixIsMin(u) /\ u[1] < INT8_MAX) =>
                    predicates[1] = Some(ColumnPredicate("Range", Absent, Some(u[1] + 1)))
               /\ \A i \in 2..Len(schema) : predicates[i] = Absent
       /\ NoExplicitBounds => predicates = pre[1].predicates
  /\ (test = "TestLiftPrimaryKeyBounds_UpperBound1" /\ AtEndOfTest) =>
       predicates[1] = Some(ColumnPredicate("Range", Absent, Some(11)))
  /\ (test = "TestLiftPrimaryKeyBounds_UpperBound3" /\ AtEndOfTest) =>
       predicates[1] = Some(ColumnPredicate("Range", Absent, Some(10)))
  /\ (test = "TestLiftPrimaryKeyBounds_BothBounds4" /\ AtEndOfTest) =>
       \A row \in Rows : InExplicitRange(row) => MatchesPredicates(row, predicates)
  /\ (test = "TestLiftPrimaryKeyBounds_NoBounds" /\ AtEndOfTest) =>
       predicates = <<Absent, Absent, Absent>>

\* reached: a free run without predicates of its own whose two bound keys
\* enclose a row and lift an inclusive upper bound on the first column
C10_Witness ==
  /\ Optimized /\ ~erase /\ test = "FreeIntKeys" /\ added = {}
  /\ lowers = {<<INT8_MIN, INT8_MAX, INT8_MIN>>}
  /\ uppers = {<<INT8_MAX - 1, INT8_MAX, INT8_MIN>>}
  /\ predicates[1] = Some(ColumnPredicate("Range", Absent, Some(INT8_MAX)))
  /\ \E row \in Rows : InExplicitRange(row)

(***************************************************************************)
(* C11.  An empty scan is a normal outcome: OptimizeScan ends in an        *)
(* ordinary ScanSpec (predicates of the three kinds, bound keys of whole   *)
(* rows), whose scan can be short-circuited when its lower key is not      *)
(* below its upper key; a merge of a low above a high leaves the None      *)
(* predicate on the column.                                                *)
(* Whenever the scan can be short-circuited (empty key range or a None     *)
(* predicate), no row satisfies the constraints and the bounds given.      *)
(***************************************************************************)
IsNone(col) ==
  IsSet(predicates[col]) /\ Get(predicates[col]).predicate_type = "None"

C11_EmptyIsTerminal ==
  /\ pc \in {"optimized", "reoptimized"} =>
       /\ \A i \in 1..Len(schema) :
            IsSet(predicates[i]) =>
               Get(predicates[i]).predicate_type \in {"Equality", "Range", "None"}
       /\ \A key \in {lower_bound_key, exclusive_upper_bound_key} :
            IsSet(key) => Get(key) = EncodedKey(schema, Get(key).raw_keys)
       /\ (/\ IsSet(lower_bound_key) /\ IsSet(exclusive_upper_bound_key)
           /\ KeyCompare(Get(lower_bound_key), Get(exclusive_upper_bound_key)) >= 0)
            => CanShortCircuit(spec_)
  /\ pc = "build" =>
       \A c, d \in added :
          (c[1] = d[1] /\ c[2] = "GE" /\ d[2] = "LE"
             /\ Compare(schema[c[1]], c[3], d[3]) > 0) => IsNone(c[1])
  /\ CanShortCircuit(spec_) => \A row \in Rows : ~MatchesOriginal(row)

\* reached: OptimizeScan ends with a lower key that is not below the upper
\* key, both tightened from explicit keys and predicates, no predicate None
C11_Witness ==
  /\ Optimized /\ test \in FreeNames
  /\ EmptyKeyRange(spec_) /\ ~HasNonePredicate(spec_)
  /\ lowers # {} /\ uppers # {}
  /\ \E i \in 1..Len(schema) : IsSet(predicates[i])

(***************************************************************************)
(* The predicates Lift derives from a lower key l and an upper key u:      *)
(* Equality on the columns before the first one, d, where the keys differ  *)
(* and a Range on d, its low l[d] unless MIN.  As the spec states it, the  *)
(* high is u[d] unless MIN and no later column gets a predicate.  As the   *)
(* tests assert it, the high is u[d] only if every later cell of u is MIN  *)
(* and the successor of u[d] otherwise (none at MAX), and when the Range   *)
(* is a single value the next column gets the low l[d + 1] unless MIN.     *)
(***************************************************************************)
FirstDifference(l, u) ==
  LET differ == {i \in 1..Len(schema) : Compare(schema[i], l[i], u[i]) # 0}
  IN IF differ = {} THEN Len(schema) + 1
     ELSE CHOOSE i \in differ : \A j \in differ : i <= j

NotMin(i, v) ==
  IF Compare(schema[i], v, MinValue(schema[i])) = 0 THEN Absent ELSE Some(v)

RestIsMin(u, d) ==
  \A j \in (d + 1)..Len(schema) : Compare(schema[j], u[j], MinValue(schema[j])) = 0

InclusiveHigh(i, v) ==
  IF schema[i] = "STRING" THEN Some(v \o <<0>>)
  ELSE IF v < INT8_MAX THEN Some(v + 1) ELSE Absent

RangeIfBounded(i, low, high) ==
  IF ~IsSet(low) /\ ~IsSet(high) THEN Absent ELSE Some(Range(schema[i], low, high))

LiftedAsStated(l, u) ==
  LET d == FirstDifference(l, u)
  IN [i \in 1..Len(schema) |->
        IF i < d THEN Some(Equality(l[i]))
        ELSE IF i = d THEN RangeIfBounded(i, NotMin(i, l[i]), NotMin(i, u[i]))
        ELSE Absent]

LiftedAsTested(l, u) ==
  LET d == FirstDifference(l, u)
      exclusive == RestIsMin(u, d)
      at_d == RangeIfBounded(d, NotMin(d, l[d]),
                             IF exclusive THEN NotMin(d, u[d])
                             ELSE InclusiveHigh(d, u[d]))
      single == /\ d < Len(schema) /\ exclusive /\ IsSet(at_d)
                /\ Get(at_d).predicate_type = "Equality"
  IN [i \in 1..Len(schema) |->
        IF i < d THEN Some(Equality(l[i]))
        ELSE IF i = d THEN at_d
        ELSE IF i = d + 1 /\ single
             THEN RangeIfBounded(i, NotMin(i, l[i]), Absent)
        ELSE Absent]

\* OptimizeScan without erasure of a ScanSpec with both bound keys and no
\* predicate leaves in the map the predicates Lifted(l, u)
LiftsBothBounds(Lifted(_, _)) ==
  (Optimized /\ ~erase /\ added = {}) =>
     \A l \in lowers, u \in uppers :
        (lowers = {l} /\ uppers = {u}) => predicates = Lifted(l, u)

WithPredicatesMerged ==
  (test = "TestLiftPrimaryKeyBounds_WithPredicates" /\ AtEndOfTest) =>
     predicates = <<Some(Equality(10)),
                    Some(ColumnPredicate("Range", Some(15), Some(90))),
                    Some(ColumnPredicate("Range", Some(3), Some(101)))>>

(***************************************************************************)
(* C12 as stated.  Lift with both bound keys merges Equality on the        *)
(* columns where the keys agree and, on the first column d where they      *)
(* differ, the Range from lower[d] to upper[d] (each omitted when MIN);    *)
(* the columns after d get no lifted predicate.  Violated: key >=          *)
(* (10,11,12) and key < (10,12,13) lifts b >= 11 AND b < 13, and key <     *)
(* (11,MIN,MIN) lifts a = 10 and b >= 11.                                  *)
(***************************************************************************)
C12_LiftAsStated == LiftsBothBounds(LiftedAsStated) /\ WithPredicatesMerged

(***************************************************************************)
(* C12, amended.  Lift with both bound keys merges Equality on the columns *)
(* where the keys agree and a Range on the first column d where they       *)
(* differ: its low is lower[d] (omitted when MIN); its high is upper[d]    *)
(* (omitted when MIN) if every later cell of the upper key is MIN, and the *)
(* value after upper[d] (none at MAX) otherwise.  When that Range is a     *)
(* single value, column d + 1 gets the low lower[d + 1] (omitted when      *)
(* MIN); no other column gets a lifted predicate.  The lifted predicates   *)
(* are merged with those of the map.                                       *)
(***************************************************************************)
C12_LiftBothBounds == LiftsBothBounds(LiftedAsTested) /\ WithPredicatesMerged

\* reached: a free run whose keys agree on the first column and differ on
\* the second, the upper key ending in a cell above MIN
C12_Witness ==
  /\ Optimized /\ ~erase /\ test = "FreeIntKeys" /\ added = {}
  /\ lowers = {<<INT8_MAX - 1, INT8_MIN, INT8_MAX>>}
  /\ uppers = {<<INT8_MAX - 1, INT8_MAX - 1, INT8_MAX>>}
  /\ predicates = <<Some(Equality(INT8_MAX - 1)),
                    Some(ColumnPredicate("Range", Absent, Some(INT8_MAX))),
                    Absent>>

(***************************************************************************)
(* The keys Push derives from the predicates it starts from: the lower key *)
(* of C6, the upper key of C7 and C8.                                      *)
(***************************************************************************)
DerivedLowerKey ==
  LET n == LeadingRun(HasLowerValue)
  IN IF n = 0 THEN Absent
     ELSE Some(EncodedKey(schema,
                          [i \in 1..Len(schema) |->
                             IF i <= n THEN LowerValue(i) ELSE MinValue(schema[i])]))

DerivedUpperKey ==
  LET k == LeadingRun(IsEqualityColumn)
      carry == {i \in 1..k : HasSuccessor(i)}
      j == CHOOSE i \in carry : \A h \in carry : h <= i
  IN IF HasHigh(k + 1)
     THEN Some(EncodedKey(schema,
                          [i \in 1..Len(schema) |->
                             IF i <= k THEN LowerValue(i)
                             ELSE IF i = k + 1 THEN Get(Get(Before[i]).upper)
                             ELSE MinValue(schema[i])]))
     ELSE IF carry = {} THEN Absent
     ELSE Some(EncodedKey(schema,
                          [i \in 1..Len(schema) |->
                             IF i < j THEN LowerValue(i)
                             ELSE IF i = j THEN Successor(i)
                             ELSE MinValue(schema[i])]))

LargerKey(a, b) ==
  IF ~IsSet(a) THEN b
  ELSE IF ~IsSet(b) THEN a
  ELSE IF KeyCompare(Get(a), Get(b)) >= 0 THEN a ELSE b

SmallerKey(a, b) ==
  IF ~IsSet(a) THEN b
  ELSE IF ~IsSet(b) THEN a
  ELSE IF KeyCompare(Get(a), Get(b)) <= 0 THEN a ELSE b

(***************************************************************************)
(* C13.  OptimizeScan never widens an explicit bound: the final lower key  *)
(* is the larger of the explicit and the derived lower key, the final      *)
(* upper key the smaller of the explicit and the derived upper key, and a  *)
(* side without a derived key keeps its explicit key; so every row of the  *)
(* final key range lies within every bound key that was given.             *)
(***************************************************************************)
C13_NeverWidens ==
  Optimized =>
    /\ lower_bound_key = LargerKey(pre[1].lower_bound_key, DerivedLowerKey)
    /\ exclusive_upper_bound_key =
         SmallerKey(pre[1].exclusive_upper_bound_key, DerivedUpperKey)
    /\ \A l \in lowers :
         /\ IsSet(lower_bound_key)
         /\ KeyCompare(Get(lower_bound_key), EncodedKey(schema, l)) >= 0
    /\ \A u \in uppers :
         /\ IsSet(exclusive_upper_bound_key)
         /\ KeyCompare(Get(exclusive_upper_bound_key), EncodedKey(schema, u)) <= 0
    /\ \A row \in Rows :
         InKeyRange(row, lower_bound_key, exclusive_upper_bound_key) =>
            InExplicitRange(row)

\* reached: a free run where the derived lower key replaces a smaller
\* explicit one, and no upper key is derived or given
C13_Witness ==
  /\ Optimized /\ test \in FreeNames
  /\ lowers # {} /\ added # {}
  /\ IsSet(pre[1].lower_bound_key) /\ IsSet(DerivedLowerKey)
  /\ lower_bound_key = DerivedLowerKey
  /\ KeyCompare(Get(lower_bound_key), Get(pre[1].lower_bound_key)) > 0
  /\ ~IsSet(DerivedUpperKey) /\ exclusive_upper_bound_key = Absent

====
